---- MODULE Spec2Model ----
(***************************************************************************)
(* The terminal snake game of src/snakegame/main.c as a state machine.     *)
(*                                                                         *)
(* The state is main()'s locals (the Snake structure, current_direction,   *)
(* max_x, max_y, game_over, last_extend_time), the position of main() in   *)
(* its loop body (pc), the terminal's input queue that getch() reads, and  *)
(* the value time(NULL) last returned.  One action per step of the loop    *)
(* body, one for a key arriving in the input queue.                        *)
(*                                                                         *)
(* Spec is the game on the explored screens.  LongSpec is the same game    *)
(* with the clock explored further, on the screens with at most one        *)
(* interior row.  TermSpec is the game on one-row screens with a clock     *)
(* that keeps advancing, under fairness.  QuietSpec is the game with no     *)
(* arrow key and no 'q' ever pressed.  FnSpec applies update_snake, the wraparound,             *)
(* check_collision and the growth step to arbitrary snakes.                *)
(*                                                                         *)
(* malloc and realloc are taken to succeed, and time(NULL) not to go       *)
(* backwards.  iter, reversal and grown_at record what has happened; no    *)
(* statement of the program reads them.  screen is what the terminal shows *)
(* and process what main() has released and returned.                      *)
(***************************************************************************)
EXTENDS Integers, Sequences, FiniteSets, TLC

(* ----------------------------- bounds ---------------------------------- *)
\* The first NumScreens screen sizes of Screens are explored (getmaxyx).
NumScreens == 5
\* The terminal's input queue holds at most MaxQueue unread key events.
MaxQueue == 1
\* time(NULL) is explored from 0 (the sample of line 247) up to MaxClock,
\* and up to MaxLongClock on the screens of LongSpec.
MaxClock == 5
MaxLongClock == 11
\* FnSpec applies the functions to snakes of 1..MaxFnLen segments.
MaxFnLen == 3
\* Loop iterations are numbered up to MaxTick; later ones keep that number.
MaxTick == 2
\* time(NULL) is explored up to MaxTermClock in TermSpec.
MaxTermClock == 15
\* time(NULL) is explored up to MaxQuietClock in QuietSpec.
MaxQuietClock == 26

\* Screen sizes <<max_x, max_y>>: the smallest screen whose interior holds
\* the initial snake and has two rows, the same with one interior row, a
\* screen too narrow for the initial snake, a one-line terminal, a screen
\* with no interior at all, and wider screens.
Screens == << <<9, 4>>, <<9, 3>>, <<8, 3>>, <<9, 1>>, <<2, 2>>, <<10, 3>>, <<11, 3>> >>
ExploredScreens == {Screens[i] : i \in (1..NumScreens) \cap DOMAIN Screens}
\* The screens of LongSpec: those with at most one interior row.
LongScreens == {sc \in ExploredScreens : sc[2] <= 3}
\* The screens of TermSpec: one row to move on, at most 7 cells long.
TermScreens == {<<9, 3>>, <<8, 3>>, <<9, 1>>}
\* The screens of QuietSpec: the narrowest whose interior holds the whole
\* initial snake, with one and with two interior rows.
QuietScreens == {<<11, 3>>, <<11, 4>>}
\* The screens of FnSpec (20 x 10 is the screen of the wraparound examples).
FnScreens == {<<20, 10>>, <<3, 3>>, <<1, 1>>}

(* ------------------------- program constants --------------------------- *)
INITIAL_SNAKE_LENGTH == 5
EXTEND_INTERVAL == 5

DIR_UP == "DIR_UP"
DIR_DOWN == "DIR_DOWN"
DIR_LEFT == "DIR_LEFT"
DIR_RIGHT == "DIR_RIGHT"
Direction == {DIR_UP, DIR_DOWN, DIR_LEFT, DIR_RIGHT}

\* What getch() can return: ERR when no key is pending (nodelay), the four
\* arrow keys (keypad), 'q', and any other key.
ERR == "ERR"
KEY_UP == "KEY_UP"
KEY_DOWN == "KEY_DOWN"
KEY_LEFT == "KEY_LEFT"
KEY_RIGHT == "KEY_RIGHT"
KEY_Q == "q"
KEY_OTHER == "x"
Keys == {KEY_UP, KEY_DOWN, KEY_LEFT, KEY_RIGHT, KEY_Q, KEY_OTHER}

VARIABLES
    pc,                 \* the statement of main() that runs next
    snake,              \* [x, y : 0..length-1 -> Int, length : Int]
    current_direction,  \* main: Direction current_direction
    max_x, max_y,       \* main: screen size, read once by getmaxyx
    game_over,          \* main: bool game_over
    last_extend_time,   \* main: time_t last_extend_time
    clock,              \* the value time(NULL) returned last
    inq,                \* the terminal's queue of unread key events
    message,            \* TRUE once "GAME OVER!" has been printed
    iter,               \* what the current loop iteration has done so far
    reversal,           \* the direction read last is the opposite of the one applied
    grown_at,           \* the clock samples at which extend_snake was called
    screen,             \* the cells of the terminal showing 'O' and '#'
    process             \* calls of free and endwin so far, and the exit status

vars == <<pc, snake, current_direction, max_x, max_y, game_over,
          last_extend_time, clock, inq, message, iter, reversal, grown_at,
          screen, process>>

(* ------------------------------ helpers -------------------------------- *)

\* getch(): the key at the head of the queue, ERR when the queue is empty.
getch_value(q) == IF q = <<>> THEN ERR ELSE Head(q)
\* getch(): the queue once the call has returned.
getch_rest(q) == IF q = <<>> THEN q ELSE Tail(q)

NoWork == [reads |-> 0, keys |-> 0, updates |-> 0, renders |-> 0, sleeps |-> 0,
           tick |-> 0]

\* The bookkeeping of an iteration that begins after iteration it.
NextIteration(it) ==
    [NoWork EXCEPT !.tick = IF it.tick < MaxTick THEN it.tick + 1 ELSE MaxTick]

\* The bookkeeping of one getch() call of the current iteration.
CountRead(it, q) ==
    [it EXCEPT !.reads = @ + 1, !.keys = @ + (IF q = <<>> THEN 0 ELSE 1)]

(* ----------------------- the functions of main.c ----------------------- *)
\* The horizontal keys exchanged: KEY_LEFT gives DIR_RIGHT, KEY_RIGHT DIR_LEFT.
get_new_direction_Mirrored(current, ch) ==
    CASE ch = KEY_UP -> DIR_UP
      [] ch = KEY_DOWN -> DIR_DOWN
      [] ch = KEY_LEFT -> DIR_RIGHT
      [] ch = KEY_RIGHT -> DIR_LEFT
      [] OTHER -> current

get_new_direction(current, ch) ==
    CASE ch = KEY_UP -> DIR_UP
      [] ch = KEY_DOWN -> DIR_DOWN
      [] ch = KEY_LEFT -> DIR_LEFT
      [] ch = KEY_RIGHT -> DIR_RIGHT
      [] OTHER -> current

\* The shift run upwards, for (j = 1; j <= i; j++) seg[j] = seg[j-1]: every
\* segment ends up holding the old head.
RECURSIVE ShiftUpLoop(_, _, _)
ShiftUpLoop(s, j, last) ==
    IF j <= last
    THEN ShiftUpLoop([s EXCEPT !.x[j] = s.x[j - 1], !.y[j] = s.y[j - 1]], j + 1, last)
    ELSE s

ShiftFrom_Upward(s, i) == ShiftUpLoop(s, 1, i)

\* update_snake's first loop: for (i = length - 1; i > 0; i--) seg[i] = seg[i-1]
RECURSIVE ShiftFrom(_, _)
ShiftFrom(s, i) ==
    IF i > 0
    THEN ShiftFrom([s EXCEPT !.x[i] = s.x[i - 1], !.y[i] = s.y[i - 1]], i - 1)
    ELSE s

\* The vertical cases exchanged: Up adds to y, Down subtracts from it.
MoveHead_Inverted(s, direction) ==
    CASE direction = DIR_UP -> [s EXCEPT !.y[0] = @ + 1]
      [] direction = DIR_DOWN -> [s EXCEPT !.y[0] = @ - 1]
      [] direction = DIR_LEFT -> [s EXCEPT !.x[0] = @ - 1]
      [] direction = DIR_RIGHT -> [s EXCEPT !.x[0] = @ + 1]

\* update_snake's switch: the head moves one cell in the direction.
MoveHead(s, direction) ==
    CASE direction = DIR_UP -> [s EXCEPT !.y[0] = @ - 1]
      [] direction = DIR_DOWN -> [s EXCEPT !.y[0] = @ + 1]
      [] direction = DIR_LEFT -> [s EXCEPT !.x[0] = @ - 1]
      [] direction = DIR_RIGHT -> [s EXCEPT !.x[0] = @ + 1]

update_snake(s, direction) == MoveHead(ShiftFrom(s, s.length - 1), direction)

\* The scan stopping one short, i < length - 1: the tail is never compared.
RECURSIVE CollisionFrom_SkipTail(_, _)
CollisionFrom_SkipTail(s, i) ==
    IF i < s.length - 1
    THEN IF s.x[0] = s.x[i] /\ s.y[0] = s.y[i] THEN TRUE
         ELSE CollisionFrom_SkipTail(s, i + 1)
    ELSE FALSE

\* check_collision's loop: for (i = 1; i < length; i++) if (head == seg[i]) return true
RECURSIVE CollisionFrom(_, _)
CollisionFrom(s, i) ==
    IF i < s.length
    THEN IF s.x[0] = s.x[i] /\ s.y[0] = s.y[i] THEN TRUE ELSE CollisionFrom(s, i + 1)
    ELSE FALSE

\* The scan started at index 0: the head is compared with itself.
check_collision_FromHead(s) == CollisionFrom(s, 0)

check_collision(s) == CollisionFrom(s, 1)

\* The new segment copied from the head instead of the tail.
extend_snake_CopyHead(s) ==
    [x |-> [i \in 0..s.length |-> IF i < s.length THEN s.x[i] ELSE s.x[0]],
     y |-> [i \in 0..s.length |-> IF i < s.length THEN s.y[i] ELSE s.y[0]],
     length |-> s.length + 1]

\* The new segment copied from the segment before the tail.
extend_snake_CopyBeforeTail(s) ==
    [x |-> [i \in 0..s.length |->
              IF i < s.length THEN s.x[i] ELSE s.x[IF s.length > 1 THEN s.length - 2 ELSE 0]],
     y |-> [i \in 0..s.length |->
              IF i < s.length THEN s.y[i] ELSE s.y[IF s.length > 1 THEN s.length - 2 ELSE 0]],
     length |-> s.length + 1]

\* No segment appended.
extend_snake_Nothing(s) == s

\* Two segments appended by one call.
extend_snake_Twice(s) ==
    [x |-> [i \in 0..(s.length + 1) |-> IF i < s.length THEN s.x[i] ELSE s.x[s.length - 1]],
     y |-> [i \in 0..(s.length + 1) |-> IF i < s.length THEN s.y[i] ELSE s.y[s.length - 1]],
     length |-> s.length + 2]

\* extend_snake: realloc to length + 1 (contents kept), copy the tail, length++.
extend_snake(s) ==
    [x |-> [i \in 0..s.length |-> IF i < s.length THEN s.x[i] ELSE s.x[s.length - 1]],
     y |-> [i \in 0..s.length |-> IF i < s.length THEN s.y[i] ELSE s.y[s.length - 1]],
     length |-> s.length + 1]

\* The wrap from the low side landing one cell short, on max - 3.
WrapCoord_Short(v, max) ==
    IF v <= 0 THEN max - 3
    ELSE IF v >= max - 1 THEN 1
    ELSE v

\* The wrap landing on the border itself (max - 1 and 0).
WrapCoord_OntoBorder(v, max) ==
    IF v <= 0 THEN max - 1
    ELSE IF v >= max - 1 THEN 0
    ELSE v

\* main, lines 264-273: one coordinate of the head against its screen bound.
WrapCoord(v, max) ==
    IF v <= 0 THEN max - 2
    ELSE IF v >= max - 1 THEN 1
    ELSE v

WrapHead(s, mx, my) ==
    [s EXCEPT !.x[0] = WrapCoord(@, mx), !.y[0] = WrapCoord(@, my)]

\* The segments laid out leftwards from the middle, x = max_x / 2 - i.
InitialSnake_Leftwards(mx, my) ==
    [x |-> [i \in 0..(INITIAL_SNAKE_LENGTH - 1) |-> (mx \div 2) - i],
     y |-> [i \in 0..(INITIAL_SNAKE_LENGTH - 1) |-> my \div 2],
     length |-> INITIAL_SNAKE_LENGTH]

\* main, lines 237-243: the snake as first laid out.
InitialSnake(mx, my) ==
    [x |-> [i \in 0..(INITIAL_SNAKE_LENGTH - 1) |-> (mx \div 2) + i],
     y |-> [i \in 0..(INITIAL_SNAKE_LENGTH - 1) |-> my \div 2],
     length |-> INITIAL_SNAKE_LENGTH]

(* ----------------------------- the terminal ---------------------------- *)
\* The screen once show_splash_screen has cleared it (line 208).
BlankScreen == [O |-> {}, hash |-> {}]

\* The cells <<x, y>> of the window; mvprintw outside it prints nothing.
Window(mx, my) == (0..(mx - 1)) \X (0..(my - 1))

\* The cells of segments 0..n-1 of s.
SegmentCells(s, n) == {<<s.x[i], s.y[i]>> : i \in 0..(n - 1)}

\* The erase loop stopping one short, i < length - 1: the tail keeps its 'O'.
EraseSnake_SkipTail(scr, s) ==
    [O |-> scr.O \ SegmentCells(s, s.length - 1),
     hash |-> scr.hash \ SegmentCells(s, s.length - 1)]

\* main, lines 255-258: mvprintw(y[i], x[i], " ") for every segment.
EraseSnake(scr, s) ==
    [O |-> scr.O \ SegmentCells(s, s.length),
     hash |-> scr.hash \ SegmentCells(s, s.length)]

\* main, lines 282-284: mvprintw(y[i], x[i], "O") for every segment.
DrawSnake(scr, s, mx, my) ==
    [O |-> scr.O \cup (SegmentCells(s, s.length) \cap Window(mx, my)),
     hash |-> scr.hash \ SegmentCells(s, s.length)]

\* The cells draw_border prints on: rows 0 and max_y - 1, columns 0 and max_x - 1.
BorderCells(mx, my) ==
    {<<i, r>> : i \in 0..(mx - 1), r \in {0, my - 1}}
        \cup {<<c, i>> : c \in {0, mx - 1}, i \in 0..(my - 1)}

\* draw_border: '#' on every border cell, over whatever was there.
draw_border(scr, mx, my) ==
    [O |-> scr.O \ BorderCells(mx, my), hash |-> scr.hash \cup BorderCells(mx, my)]

\* Nothing freed, the terminal still in curses mode, main not returned.
StartedProcess == [free_x |-> 0, free_y |-> 0, endwin |-> 0, status |-> "none"]

\* free(snake.x) called twice and free(snake.y) never.
ExitProcess_DoubleFree(p) ==
    [p EXCEPT !.free_x = @ + 2, !.endwin = @ + 1, !.status = 0]

\* main, lines 314-317: free(snake.x); free(snake.y); endwin(); return 0.
ExitProcess(p) ==
    [p EXCEPT !.free_x = @ + 1, !.free_y = @ + 1, !.endwin = @ + 1, !.status = 0]

(* ------------------------------- Init ---------------------------------- *)
\* The state on first reaching the loop test of line 248, on screen sc.
StartOn(sc) ==
    /\ max_x = sc[1]
    /\ max_y = sc[2]
    /\ snake = InitialSnake(max_x, max_y)
    /\ current_direction = DIR_LEFT
    /\ game_over = FALSE
    /\ clock = 0
    /\ last_extend_time = 0
    /\ inq = <<>>
    /\ message = FALSE
    /\ iter = NoWork
    /\ reversal = FALSE
    /\ grown_at = <<>>
    /\ screen = BlankScreen
    /\ process = StartedProcess
    /\ pc = "poll"

Init == \E sc \in ExploredScreens : StartOn(sc)

LongInit == \E sc \in LongScreens : StartOn(sc)

Running == {"poll", "erase", "advance", "wrap", "collide", "draw", "grow",
            "sleep", "readdir"}

(* ------------------------------ actions -------------------------------- *)
\* The user presses a key while the game runs: it joins the input queue.
KeyPress ==
    /\ pc \in Running
    /\ Len(inq) < MaxQueue
    /\ \E k \in Keys : inq' = Append(inq, k)
    /\ UNCHANGED <<pc, snake, current_direction, max_x, max_y, game_over,
                   last_extend_time, clock, message, iter, reversal, grown_at,
                   screen, process>>

\* Lines 248-253: the loop test, the quit poll and its break.
PollQuit ==
    /\ pc = "poll"
    /\ ~game_over
    /\ inq' = getch_rest(inq)
    /\ iter' = CountRead(NextIteration(iter), inq)
    /\ pc' = IF getch_value(inq) = KEY_Q THEN "loop_exit" ELSE "erase"
    /\ UNCHANGED <<snake, current_direction, max_x, max_y, game_over,
                   last_extend_time, clock, message, reversal, grown_at,
                   screen, process>>

\* Lines 255-258: blank the cells of the snake as it was drawn.
Erase ==
    /\ pc = "erase"
    /\ screen' = EraseSnake(screen, snake)
    /\ pc' = "advance"
    /\ UNCHANGED <<snake, current_direction, max_x, max_y, game_over,
                   last_extend_time, clock, inq, message, iter, reversal, grown_at,
                   process>>

\* Line 261: update_snake(&snake, current_direction).
Advance ==
    /\ pc = "advance"
    /\ snake' = update_snake(snake, current_direction)
    /\ iter' = [iter EXCEPT !.updates = @ + 1]
    /\ pc' = "wrap"
    /\ UNCHANGED <<current_direction, max_x, max_y, game_over,
                   last_extend_time, clock, inq, message, reversal, grown_at,
                   screen, process>>

\* Lines 263-273: wrap the head around the screen.
Wrap ==
    /\ pc = "wrap"
    /\ snake' = WrapHead(snake, max_x, max_y)
    /\ pc' = "collide"
    /\ UNCHANGED <<current_direction, max_x, max_y, game_over,
                   last_extend_time, clock, inq, message, iter, reversal, grown_at,
                   screen, process>>

\* The collision check without its break: the tick goes on to draw.
Collide_NoBreak ==
    /\ pc = "collide"
    /\ game_over' = (game_over \/ check_collision(snake))
    /\ pc' = "draw"
    /\ reversal' = FALSE
    /\ UNCHANGED <<snake, current_direction, max_x, max_y,
                   last_extend_time, clock, inq, message, iter, grown_at, screen, process>>

\* Lines 275-279: the collision check and its break.
Collide ==
    /\ pc = "collide"
    /\ IF check_collision(snake)
       THEN game_over' = TRUE /\ pc' = "loop_exit"
       ELSE game_over' = game_over /\ pc' = "draw"
    /\ reversal' = FALSE
    /\ UNCHANGED <<snake, current_direction, max_x, max_y,
                   last_extend_time, clock, inq, message, iter, grown_at, screen, process>>

\* Lines 281-290: draw the snake and the border, refresh.
Draw ==
    /\ pc = "draw"
    /\ screen' = draw_border(DrawSnake(screen, snake, max_x, max_y), max_x, max_y)
    /\ iter' = [iter EXCEPT !.renders = @ + 1]
    /\ pc' = "grow"
    /\ UNCHANGED <<snake, current_direction, max_x, max_y, game_over,
                   last_extend_time, clock, inq, message, reversal, grown_at,
                   process>>

\* The interval compared with > instead of >=.
GrowStep_Strict(limit) ==
    /\ pc = "grow"
    /\ \E current_time \in clock..limit :
         /\ clock' = current_time
         /\ IF current_time - last_extend_time > EXTEND_INTERVAL
            THEN /\ snake' = extend_snake(snake)
                 /\ last_extend_time' = current_time
                 /\ grown_at' = Append(grown_at, current_time)
            ELSE UNCHANGED <<snake, last_extend_time, grown_at>>
    /\ pc' = "sleep"
    /\ UNCHANGED <<current_direction, max_x, max_y, game_over, inq, message,
                   iter, reversal, screen, process>>

\* Lines 292-297: sample the clock; extend the snake when the interval has passed.
\* time(NULL) returns any value from the last one on (here: up to limit).
GrowStep(limit) ==
    /\ pc = "grow"
    /\ \E current_time \in clock..limit :
         /\ clock' = current_time
         /\ IF current_time - last_extend_time >= EXTEND_INTERVAL
            THEN /\ snake' = extend_snake(snake)
                 /\ last_extend_time' = current_time
                 /\ grown_at' = Append(grown_at, current_time)
            ELSE UNCHANGED <<snake, last_extend_time, grown_at>>
    /\ pc' = "sleep"
    /\ UNCHANGED <<current_direction, max_x, max_y, game_over, inq, message,
                   iter, reversal, screen, process>>

Grow == GrowStep(MaxClock)

GrowLong == GrowStep(MaxLongClock)

\* Line 300: usleep(100000).
Sleep ==
    /\ pc = "sleep"
    /\ iter' = [iter EXCEPT !.sleeps = @ + 1]
    /\ pc' = "readdir"
    /\ UNCHANGED <<snake, current_direction, max_x, max_y, game_over,
                   last_extend_time, clock, inq, message, reversal, grown_at,
                   screen, process>>

Opposite(d) ==
    CASE d = DIR_UP -> DIR_DOWN
      [] d = DIR_DOWN -> DIR_UP
      [] d = DIR_LEFT -> DIR_RIGHT
      [] d = DIR_RIGHT -> DIR_LEFT

\* Line 303: current_direction = get_new_direction(current_direction).
ReadDirection ==
    /\ pc = "readdir"
    /\ current_direction' = get_new_direction(current_direction, getch_value(inq))
    /\ inq' = getch_rest(inq)
    /\ iter' = CountRead(iter, inq)
    /\ reversal' = (current_direction' = Opposite(current_direction))
    /\ pc' = "poll"
    /\ UNCHANGED <<snake, max_x, max_y, game_over, last_extend_time, clock, message,
                   grown_at, screen, process>>

\* Lines 306-311: the GAME OVER message, shown only when game_over is set.
GameOverMessage ==
    /\ pc = "loop_exit"
    /\ message' = game_over
    /\ pc' = "cleanup"
    /\ UNCHANGED <<snake, current_direction, max_x, max_y, game_over,
                   last_extend_time, clock, inq, iter, reversal, grown_at,
                   screen, process>>

\* Lines 313-317: free the arrays, endwin, return 0.
Cleanup ==
    /\ pc = "cleanup"
    /\ process' = ExitProcess(process)
    /\ pc' = "done"
    /\ UNCHANGED <<snake, current_direction, max_x, max_y, game_over,
                   last_extend_time, clock, inq, message, iter, reversal, grown_at,
                   screen>>

Next ==
    \/ KeyPress
    \/ PollQuit
    \/ Erase
    \/ Advance
    \/ Wrap
    \/ Collide
    \/ Draw
    \/ Grow
    \/ Sleep
    \/ ReadDirection
    \/ GameOverMessage
    \/ Cleanup

Spec == Init /\ [][Next]_vars

\* The same program with the clock explored further, on the screens with at
\* most one interior row.
LongNext ==
    \/ KeyPress
    \/ PollQuit
    \/ Erase
    \/ Advance
    \/ Wrap
    \/ Collide
    \/ Draw
    \/ GrowLong
    \/ Sleep
    \/ ReadDirection
    \/ GameOverMessage
    \/ Cleanup

LongSpec == LongInit /\ [][LongNext]_vars

(* ------------------- the game with a clock that advances ---------------- *)
TermInit == \E sc \in TermScreens : StartOn(sc)

\* The growth step when a tick (100 ms of sleep) sees the clock at most one
\* second later than the tick before.
GrowSteady == GrowStep(IF clock < MaxTermClock THEN clock + 1 ELSE clock)

\* A growth step that samples a later second than the last one.
ClockTick == GrowSteady /\ clock' > clock

\* The steps main() takes by itself.
ProgramStep ==
    \/ PollQuit
    \/ Erase
    \/ Advance
    \/ Wrap
    \/ Collide
    \/ Draw
    \/ GrowSteady
    \/ Sleep
    \/ ReadDirection
    \/ GameOverMessage
    \/ Cleanup

TermNext == KeyPress \/ ProgramStep

\* main() keeps taking steps, and over and over a growth step finds the clock
\* advanced; keys arrive or not.
TermSpec ==
    /\ TermInit
    /\ [][TermNext]_vars
    /\ WF_vars(ProgramStep)
    /\ SF_vars(ClockTick)

(* ------------- the game with no arrow key and no quit key --------------- *)
QuietInit == \E sc \in QuietScreens : StartOn(sc)

\* The user presses a key that is neither an arrow nor 'q'.
OtherKeyPress ==
    /\ pc \in Running
    /\ Len(inq) < MaxQueue
    /\ inq' = Append(inq, KEY_OTHER)
    /\ UNCHANGED <<pc, snake, current_direction, max_x, max_y, game_over,
                   last_extend_time, clock, message, iter, reversal, grown_at,
                   screen, process>>

GrowQuiet == GrowStep(MaxQuietClock)

QuietNext ==
    \/ OtherKeyPress
    \/ PollQuit
    \/ Erase
    \/ Advance
    \/ Wrap
    \/ Collide
    \/ Draw
    \/ GrowQuiet
    \/ Sleep
    \/ ReadDirection
    \/ GameOverMessage
    \/ Cleanup

QuietSpec == QuietInit /\ [][QuietNext]_vars

(* -------------- the functions applied to arbitrary snakes -------------- *)
\* Coordinates at and next to the two borders of an axis of size max.
FnCoords(max) == {0, 1, max - 2, max - 1}

\* Every snake of n segments laid on those coordinates.
FnSnakes(n, mx, my) ==
    {[x |-> fx, y |-> fy, length |-> n] :
        fx \in [0..(n - 1) -> FnCoords(mx)], fy \in [0..(n - 1) -> FnCoords(my)]}

\* main is about to call update_snake, to wrap the head, to call
\* check_collision or to run the growth step, on any snake and with any
\* direction.
FnInit ==
    /\ pc \in {"advance", "wrap", "collide", "grow"}
    /\ \E sc \in FnScreens : max_x = sc[1] /\ max_y = sc[2]
    /\ \E n \in 1..MaxFnLen : snake \in FnSnakes(n, max_x, max_y)
    /\ current_direction \in Direction
    /\ game_over = FALSE
    /\ clock = 0
    /\ last_extend_time = 0
    /\ inq = <<>>
    /\ message = FALSE
    /\ iter = NoWork
    /\ reversal = FALSE
    /\ grown_at = <<>>
    /\ screen = BlankScreen
    /\ process = StartedProcess

FnNext ==
    \/ Advance
    \/ Wrap
    \/ Collide
    \/ Grow

FnSpec == FnInit /\ [][FnNext]_vars

(* ------------------------------ properties ----------------------------- *)
\* The head shares its cell with another segment.
HeadOnBody(s) == \E i \in 1..(s.length - 1) : s.x[i] = s.x[0] /\ s.y[i] = s.y[0]

\* An unread 'q' is in the input queue.
QuitPending == \E i \in 1..Len(inq) : inq[i] = KEY_Q

\* The positions of main() that follow the wraparound of the current tick.
PostWrap == {"collide", "draw", "grow", "sleep", "readdir"}

\* Every segment lies strictly inside the border.
AllInside ==
    \A i \in 0..(snake.length - 1) :
        /\ 1 <= snake.x[i] /\ snake.x[i] <= max_x - 2
        /\ 1 <= snake.y[i] /\ snake.y[i] <= max_y - 2

\* C1: a 'q' pressed while the game runs, at whatever moment of an iteration,
\* is still unread when the loop next polls for it, and that poll leaves the
\* loop for the exit path with game_over unset (no GAME OVER message).
C1_QuitTakesEffectAtNextPoll ==
    [][(pc \in Running /\ QuitPending) =>
          IF pc = "poll" /\ pc' # "poll"
          THEN pc' = "loop_exit" /\ ~game_over'
          ELSE QuitPending']_vars

\* C2: an iteration calls getch() exactly once and takes at most one key
\* event from the queue; a finished iteration has made one read, one update,
\* one render pass and one sleep.
C2_OneReadPerIteration ==
    /\ iter.reads <= 1
    /\ iter.keys <= 1
    /\ (pc = "poll" /\ iter.sleeps = 1) =>
          (iter.reads = 1 /\ iter.updates = 1 /\ iter.renders = 1)

\* C3: after the wraparound step of a tick no segment, head or body, lies on
\* or beyond a border coordinate, whatever the screen size.
C3_NoSegmentOnBorder == pc \in PostWrap => AllInside

\* C4: the loop is left only by the quit poll reading 'q' (game_over stays
\* unset) or by the collision check being true (game_over set); the collision
\* check being true always leaves it; game_over is set, and the GAME OVER
\* message shown, exactly when a self-collision was detected.
C4_ExitOnlyByQuitOrCollision ==
    [][/\ (pc \in Running /\ pc' \notin Running) =>
            /\ pc' = "loop_exit"
            /\ \/ pc = "poll" /\ inq # <<>> /\ Head(inq) = KEY_Q /\ ~game_over'
               \/ pc = "collide" /\ HeadOnBody(snake) /\ game_over'
       /\ (game_over' # game_over) => (pc = "collide" /\ HeadOnBody(snake))
       /\ (pc = "collide" /\ pc' \in Running /\ pc' # pc) => ~HeadOnBody(snake)
       /\ (pc = "poll" /\ pc' \in Running /\ pc' # pc) =>
            (inq = <<>> \/ Head(inq) # KEY_Q)
       /\ message' => game_over'
       /\ (pc' \in {"cleanup", "done"}) => (message' = game_over')]_vars

\* The game has ended by a collision, after the snake had grown.
C4_Witness ==
    pc = "done" /\ message /\ game_over /\ snake.length = INITIAL_SNAKE_LENGTH + 1

\* C5: when the direction read at the end of a tick is the opposite of the one
\* applied in that tick, the collision check of the next tick is true.
C5_ReversalCollides == (pc = "collide" /\ reversal) => HeadOnBody(snake)

\* C6: the length starts at INITIAL_SNAKE_LENGTH, never falls below it, always
\* equals the number of segments, and changes only in the growth step of a
\* tick, by exactly one.
C6_LengthMonotone ==
    /\ snake.length = INITIAL_SNAKE_LENGTH
    /\ [][/\ snake'.length >= INITIAL_SNAKE_LENGTH
          /\ DOMAIN snake'.x = 0..(snake'.length - 1)
          /\ DOMAIN snake'.y = 0..(snake'.length - 1)
          /\ \/ snake'.length = snake.length
             \/ /\ snake'.length = snake.length + 1
                /\ pc = "grow"
                /\ pc' = "sleep"]_vars

\* The snake has grown and a later tick has begun.
C6_Witness ==
    pc = "erase" /\ snake.length = INITIAL_SNAKE_LENGTH + 1 /\ grown_at # <<>>

\* C7: the growth step adds a segment exactly when its clock sample is at
\* least EXTEND_INTERVAL past last_extend_time, and then sets
\* last_extend_time to that sample; otherwise it changes neither.  It never
\* adds more than one segment, and successive growths are at least
\* EXTEND_INTERVAL apart by the sampled clock.
C7_GrowthTimer ==
    [][/\ (pc = "grow" /\ pc' = "sleep") =>
            IF clock' - last_extend_time >= EXTEND_INTERVAL
            THEN /\ snake'.length = snake.length + 1
                 /\ last_extend_time' = clock'
                 /\ grown_at' = Append(grown_at, clock')
            ELSE /\ snake' = snake
                 /\ last_extend_time' = last_extend_time
                 /\ grown_at' = grown_at
       /\ ~(pc = "grow" /\ pc' = "sleep") =>
            (last_extend_time' = last_extend_time /\ grown_at' = grown_at)
       /\ \A i \in 1..(Len(grown_at') - 1) :
            grown_at'[i + 1] - grown_at'[i] >= EXTEND_INTERVAL
       /\ Len(grown_at') = snake'.length - INITIAL_SNAKE_LENGTH]_vars

\* The snake has grown twice, the first time on a sample more than
\* EXTEND_INTERVAL after the start.
C7_Witness ==
    /\ Len(grown_at) = 2
    /\ grown_at[1] > EXTEND_INTERVAL
    /\ snake.length = INITIAL_SNAKE_LENGTH + 2

\* C8: update_snake leaves the length unchanged and puts in every segment
\* i >= 1 the value segment i - 1 had before the call.
C8_ShiftInvariant ==
    [][(pc = "advance" /\ pc' = "wrap") =>
          /\ snake'.length = snake.length
          /\ DOMAIN snake'.x = DOMAIN snake.x
          /\ DOMAIN snake'.y = DOMAIN snake.y
          /\ \A i \in 1..(snake.length - 1) :
                /\ snake'.x[i] = snake.x[i - 1]
                /\ snake'.y[i] = snake.y[i - 1]]_vars

\* update_snake has run on a snake of three segments whose segments 1 and 2
\* now hold different values, neither of them the new head's.
C8_Witness ==
    /\ pc = "wrap"
    /\ iter.updates = 1
    /\ snake.length = 3
    /\ snake.x[1] # snake.x[2]
    /\ snake.x[0] # snake.x[1]
    /\ snake.x[0] # snake.x[2]

\* C9: the wraparound sends a head coordinate v <= 0 to max - 2, v >= max - 1
\* to 1, and leaves any other v alone, for x against max_x and y against
\* max_y; it changes no other segment and not the length.  On the 20 x 10
\* screen: x = 0 becomes 18, x = 19 becomes 1, y = 0 becomes 8, y = 9 becomes 1.
C9_WrapHeadOnly ==
    [][(pc = "wrap" /\ pc' = "collide") =>
          /\ snake.x[0] <= 0 => snake'.x[0] = max_x - 2
          /\ (snake.x[0] > 0 /\ snake.x[0] >= max_x - 1) => snake'.x[0] = 1
          /\ (snake.x[0] > 0 /\ snake.x[0] < max_x - 1) => snake'.x[0] = snake.x[0]
          /\ snake.y[0] <= 0 => snake'.y[0] = max_y - 2
          /\ (snake.y[0] > 0 /\ snake.y[0] >= max_y - 1) => snake'.y[0] = 1
          /\ (snake.y[0] > 0 /\ snake.y[0] < max_y - 1) => snake'.y[0] = snake.y[0]
          /\ snake'.length = snake.length
          /\ \A i \in 1..(snake.length - 1) :
                snake'.x[i] = snake.x[i] /\ snake'.y[i] = snake.y[i]
          /\ (max_x = 20 /\ snake.x[0] = 0) => snake'.x[0] = 18
          /\ (max_x = 20 /\ snake.x[0] = 19) => snake'.x[0] = 1
          /\ (max_y = 10 /\ snake.y[0] = 0) => snake'.y[0] = 8
          /\ (max_y = 10 /\ snake.y[0] = 9) => snake'.y[0] = 1]_vars

\* On the 20 x 10 screen a head moved left to x = 0 on the bottom border row
\* has been wrapped to (18, 1), with a body segment left on the border.
C9_Witness ==
    /\ pc = "collide"
    /\ iter.updates = 1
    /\ max_x = 20 /\ max_y = 10
    /\ snake.length = 3
    /\ snake.x[0] = 18 /\ snake.y[0] = 1
    /\ snake.x[1] = 1 /\ snake.y[1] = 9
    /\ current_direction = DIR_LEFT

\* The snakes of the collision examples.
ExampleColliding ==
    [x |-> [i \in 0..2 |-> IF i = 1 THEN 6 ELSE 5], y |-> [i \in 0..2 |-> 5], length |-> 3]
ExampleUnique ==
    [x |-> [i \in 0..2 |-> 5 + i], y |-> [i \in 0..2 |-> 5], length |-> 3]

\* C10: check_collision is true exactly when some segment 1..length-1 has the
\* head's x and y; it does not change the snake.  [(5,5),(6,5),(5,5)] collides,
\* [(5,5),(6,5),(7,5)] does not.
C10_CollisionIffHeadOnBody ==
    [][(pc = "collide" /\ pc' # "collide") =>
          /\ game_over' = HeadOnBody(snake)
          /\ (pc' = "loop_exit") = HeadOnBody(snake)
          /\ snake' = snake
          /\ check_collision(ExampleColliding)
          /\ ~check_collision(ExampleUnique)]_vars

\* check_collision has returned false on a snake whose two body segments
\* share a cell away from the head.
C10_Witness ==
    /\ pc = "draw"
    /\ ~game_over
    /\ snake.length = 3
    /\ snake.x[1] = snake.x[2] /\ snake.y[1] = snake.y[2]
    /\ ~HeadOnBody(snake)

\* C11: extend_snake appends exactly one segment, equal to the tail as it was
\* before the call; the length grows by one and every segment 0..length-1 of
\* before keeps its index and its value.
C11_ExtendAppendsTail ==
    [][(pc = "grow" /\ pc' = "sleep" /\ grown_at' # grown_at) =>
          /\ snake'.length = snake.length + 1
          /\ DOMAIN snake'.x = 0..snake.length
          /\ DOMAIN snake'.y = 0..snake.length
          /\ snake'.x[snake.length] = snake.x[snake.length - 1]
          /\ snake'.y[snake.length] = snake.y[snake.length - 1]
          /\ \A i \in 0..(snake.length - 1) :
                snake'.x[i] = snake.x[i] /\ snake'.y[i] = snake.y[i]]_vars

\* extend_snake has run on a snake of three segments in three different
\* cells: the fourth segment is the old tail, away from the head.
C11_Witness ==
    /\ pc = "sleep"
    /\ grown_at # <<>>
    /\ snake.length = 4
    /\ snake.x[3] = snake.x[2] /\ snake.y[3] = snake.y[2]
    /\ snake.x[2] # snake.x[0] /\ snake.x[2] # snake.x[1] /\ snake.x[1] # snake.x[0]

\* C12: update_snake puts the head one cell from where it was, by the
\* direction's unit step: Up y - 1, Down y + 1, Left x - 1, Right x + 1, the
\* other coordinate unchanged; no wraparound is applied by it.
C12_HeadUnitStep ==
    [][(pc = "advance" /\ pc' = "wrap") =>
          /\ current_direction = DIR_UP =>
                (snake'.x[0] = snake.x[0] /\ snake'.y[0] = snake.y[0] - 1)
          /\ current_direction = DIR_DOWN =>
                (snake'.x[0] = snake.x[0] /\ snake'.y[0] = snake.y[0] + 1)
          /\ current_direction = DIR_LEFT =>
                (snake'.x[0] = snake.x[0] - 1 /\ snake'.y[0] = snake.y[0])
          /\ current_direction = DIR_RIGHT =>
                (snake'.x[0] = snake.x[0] + 1 /\ snake'.y[0] = snake.y[0])]_vars

\* update_snake has moved a head upwards off the top row: it is at y = -1,
\* the segment behind it at y = 0 in the same column.
C12_Witness ==
    /\ pc = "wrap"
    /\ iter.updates = 1
    /\ current_direction = DIR_UP
    /\ snake.length = 3
    /\ snake.y[0] = -1 /\ snake.y[1] = 0
    /\ snake.x[0] = snake.x[1]

\* The head of the first tick, one cell left of the middle, needs no wraparound.
FirstTickNoWrap ==
    /\ 0 < (max_x \div 2) - 1 /\ (max_x \div 2) - 1 < max_x - 1
    /\ 0 < max_y \div 2 /\ max_y \div 2 < max_y - 1

\* The first tick has advanced and wrapped the snake.
FirstTickMoved ==
    /\ iter.tick = 1
    /\ \/ pc \in {"collide", "draw", "grow", "sleep", "readdir"}
       \/ pc = "poll" /\ iter.sleeps = 1

\* C13: the game starts with 5 segments, segment i at (max_x / 2 + i,
\* max_y / 2), and direction Left.  After the first tick, when it needed no
\* wraparound and its clock sample is less than 5 s after the start, the head
\* is one cell left of where it started and the length is still 5.  The first
\* tick whose clock sample is 5 s or more after the start appends one copy of
\* the tail, and the length becomes 6.
C13_StartAndFirstTick ==
    /\ snake.length = 5
    /\ \A i \in 0..4 :
          snake.x[i] = (max_x \div 2) + i /\ snake.y[i] = max_y \div 2
    /\ current_direction = DIR_LEFT
    /\ [][/\ (FirstTickMoved' /\ FirstTickNoWrap' /\ clock' < 5) =>
               /\ snake'.x[0] = (max_x \div 2) - 1
               /\ snake'.y[0] = max_y \div 2
               /\ snake'.length = 5
          /\ (pc = "grow" /\ pc' = "sleep" /\ clock < 5 /\ clock' >= 5) =>
               /\ snake.length = 5
               /\ snake'.length = 6
               /\ snake'.x[5] = snake.x[4] /\ snake'.y[5] = snake.y[4]
               /\ \A i \in 0..4 :
                     snake'.x[i] = snake.x[i] /\ snake'.y[i] = snake.y[i]]_vars

\* On the 9 x 4 screen the first tick has moved the head from x = 4 to x = 3
\* without wrapping, and the second tick, the first to sample the clock at
\* 5 s, has grown the snake to 6 segments.
C13_Witness ==
    /\ max_x = 9 /\ max_y = 4
    /\ iter.tick = 2
    /\ pc = "sleep"
    /\ snake.length = 6
    /\ snake.x[0] = 2 /\ snake.x[5] = snake.x[4]
    /\ grown_at = <<5>>

\* The direction an arrow key stands for.
KeyDirection(k) ==
    CASE k = KEY_UP -> DIR_UP
      [] k = KEY_DOWN -> DIR_DOWN
      [] k = KEY_LEFT -> DIR_LEFT
      [] k = KEY_RIGHT -> DIR_RIGHT

ArrowKeys == {KEY_UP, KEY_DOWN, KEY_LEFT, KEY_RIGHT}

\* C14: current_direction changes only in the direction read of a tick, and
\* only when that read takes an arrow key: it becomes that key's direction.
\* Any other key, or no key, leaves it unchanged.  The direction read changes
\* neither the segments nor the length of the snake.
C14_DirectionOnlyByArrowKey ==
    [][/\ (current_direction' # current_direction) =>
            /\ pc = "readdir"
            /\ inq # <<>>
            /\ Head(inq) \in ArrowKeys
       /\ (pc = "readdir" /\ pc' = "poll") =>
            /\ snake' = snake
            /\ IF inq # <<>> /\ Head(inq) \in ArrowKeys
               THEN current_direction' = KeyDirection(Head(inq))
               ELSE current_direction' = current_direction]_vars

\* The direction read has taken KEY_UP while the snake moved left: the
\* direction is now Up and the snake, already grown, is as it was.
C14_Witness ==
    /\ pc = "poll"
    /\ iter.sleeps = 1
    /\ iter.keys >= 1
    /\ current_direction = DIR_UP
    /\ snake.length = 6
    /\ \A i \in 0..(snake.length - 1) : snake.y[i] = max_y \div 2

\* The steps of one loop iteration, in the order of the loop body.
TickOrder == <<"poll", "erase", "advance", "wrap", "collide", "draw", "grow",
               "sleep", "readdir">>

\* C15: the steps of a tick run in the order quit poll, erase, advance,
\* wraparound, collision check, draw, growth, sleep, direction read.  The
\* collision check sees the head as the wraparound left it.  On a tick whose
\* collision check is true the loop is left at once: the snake is not drawn,
\* the length and last_extend_time keep their values and no direction key is
\* read.
C15_TickOrder ==
    [][/\ (pc \in Running /\ pc' \in Running /\ pc' # pc) =>
            \E k \in 1..9 : pc = TickOrder[k] /\ pc' = TickOrder[(k % 9) + 1]
       /\ (pc = "poll" /\ pc' = "erase") =>
            (iter'.reads = 1 /\ iter'.updates = 0 /\ iter'.renders = 0)
       /\ (pc = "erase" /\ pc' = "advance") =>
            (screen'.O \cap SegmentCells(snake, snake.length) = {} /\ iter.updates = 0)
       /\ (pc = "advance" /\ pc' = "wrap") =>
            (iter'.updates = 1 /\ snake' = update_snake(snake, current_direction))
       /\ (pc = "wrap" /\ pc' = "collide") =>
            (snake' = WrapHead(snake, max_x, max_y) /\ iter.updates = 1)
       /\ (pc = "collide" /\ pc' # pc) =>
            /\ snake = WrapHead(snake, max_x, max_y)
            /\ game_over' = HeadOnBody(snake)
            /\ pc' = IF HeadOnBody(snake) THEN "loop_exit" ELSE "draw"
            /\ iter.renders = 0
       /\ (pc = "draw" /\ pc' = "grow") =>
            (iter'.renders = 1 /\ iter.sleeps = 0 /\ ~game_over)
       /\ (pc = "grow" /\ pc' = "sleep") => (iter.renders = 1 /\ iter.sleeps = 0)
       /\ (pc = "sleep" /\ pc' = "readdir") => (iter'.sleeps = 1 /\ iter.reads = 1)
       /\ (pc = "readdir" /\ pc' = "poll") => (iter'.reads = 2 /\ iter.sleeps = 1)
       /\ game_over =>
            /\ snake' = snake
            /\ last_extend_time' = last_extend_time
            /\ grown_at' = grown_at
            /\ current_direction' = current_direction
            /\ inq' = inq
            /\ screen' = screen
            /\ iter' = iter
            /\ iter.reads = 1 /\ iter.renders = 0 /\ iter.sleeps = 0
            /\ screen.O = {}]_vars

\* A tick on which the head had to be wrapped found it on the body: the loop
\* is left with nothing drawn, no sleep, an arrow key still unread, the
\* length and last_extend_time as they were.
C15_Witness ==
    /\ pc = "loop_exit"
    /\ game_over
    /\ iter.updates = 1 /\ iter.renders = 0
    /\ inq = <<KEY_UP>>
    /\ snake.length = 5
    /\ last_extend_time = 0
    /\ snake.x[0] = max_x - 2

\* Each array freed once, the terminal restored once, exit status 0.
Terminated == [free_x |-> 1, free_y |-> 1, endwin |-> 1, status |-> 0]

\* C16: however the loop ends, by the quit key or by a collision, the program
\* goes through the message step and the cleanup to its end, once: each
\* coordinate array is freed exactly once, the terminal is restored and the
\* exit status is 0.  Nothing is released before that, and no step leaves the
\* loop for anywhere but this exit path.
C16_CleanupExactlyOnce ==
    [][/\ (pc' # pc /\ pc' \notin Running) =>
            \/ pc \in {"poll", "collide"} /\ pc' = "loop_exit"
            \/ pc = "loop_exit" /\ pc' = "cleanup"
            \/ pc = "cleanup" /\ pc' = "done"
       /\ (pc \in {"loop_exit", "cleanup"}) => ENABLED (GameOverMessage \/ Cleanup)
       /\ (pc' # "done") => process' = StartedProcess
       /\ (pc' = "done") => process' = Terminated
       /\ (pc = "done") => (pc' = "done" /\ process' = process)]_vars

\* The program has ended after a quit: no GAME OVER message, the arrays of
\* the grown snake freed once each, the terminal restored, status 0.
C16_Witness ==
    /\ pc = "done"
    /\ ~game_over /\ ~message
    /\ snake.length = 6
    /\ process.free_x = 1 /\ process.free_y = 1
    /\ process.endwin = 1 /\ process.status = 0

\* Segments i and j share a cell.
SameCell(s, i, j) == s.x[i] = s.x[j] /\ s.y[i] = s.y[j]

\* The last growth step extended the snake and no advance has followed it.
JustGrown ==
    /\ grown_at # <<>>
    /\ clock = last_extend_time
    /\ pc \notin {"wrap", "collide", "draw", "grow"}

\* C17: whenever the snake is drawn (the collision check of the tick was
\* false) its segments lie in pairwise different cells.  In every reachable
\* state two body segments share a cell only if they are the last two, a
\* growth has just happened and no advance has followed it.
C17_SegmentsDistinct ==
    /\ (pc \in {"draw", "grow"}) =>
          \A i, j \in 0..(snake.length - 1) : SameCell(snake, i, j) => i = j
    /\ \A i, j \in 1..(snake.length - 1) :
          (i < j /\ SameCell(snake, i, j)) =>
             (i = snake.length - 2 /\ j = snake.length - 1 /\ JustGrown)

\* A grown snake whose last two segments share a cell is about to advance.
C17_Witness ==
    /\ pc = "advance"
    /\ snake.length = 6
    /\ SameCell(snake, 4, 5)
    /\ current_direction = DIR_DOWN

\* C18: no game runs forever.  When main() keeps taking steps and the clock
\* keeps advancing, the program ends whatever keys arrive, also when 'q'
\* never does: the snake keeps growing and the cells it can lie on are
\* finitely many, so a collision is detected.
C18_GameEnds == <>(pc = "done")

\* On the 9 x 3 screen the snake has grown to 8 segments, one more than the
\* 7 cells of its row, and the game has ended by a collision.
C18_Witness ==
    /\ pc = "done"
    /\ game_over /\ message
    /\ max_x = 9 /\ max_y = 3
    /\ snake.length = 8
    /\ clock = MaxTermClock

\* The cells strictly inside the border.
Interior(mx, my) == (1..(mx - 2)) \X (1..(my - 2))

\* The render pass of the current tick is done and no erase has followed it.
Rendered ==
    \/ pc \in {"grow", "sleep", "readdir"}
    \/ pc = "poll" /\ iter.sleeps = 1

\* C19: after the render pass of a tick a cell inside the border shows 'O'
\* exactly when a segment of the snake is on it; no 'O' is left anywhere
\* from an earlier tick, also on the ticks that follow a growth; the border
\* cells show '#'.
C19_ScreenShowsSnake ==
    Rendered =>
       /\ \A c \in Interior(max_x, max_y) :
             (c \in screen.O) = (c \in SegmentCells(snake, snake.length))
       /\ screen.O \subseteq SegmentCells(snake, snake.length)
       /\ screen.hash = BorderCells(max_x, max_y)

\* The tick after a growth has been rendered on the 9 x 4 screen: six cells
\* show 'O', one for each segment.
C19_Witness ==
    /\ pc = "grow"
    /\ max_x = 9 /\ max_y = 4
    /\ iter.tick = 2
    /\ snake.length = 6
    /\ grown_at # <<>>
    /\ Cardinality(screen.O) = 6

\* C20: when no arrow key and no quit key is ever read and the initial snake
\* lies inside the border (max_x >= 11, max_y >= 3), the snake stays on row
\* max_y / 2 moving Left; the collision check of a tick is true exactly when
\* the length is at least max_x - 1, so the game is over at the first such
\* tick and at no earlier one.
C20_QuietGameEndsAtWidth ==
    /\ max_x >= 11 /\ max_y >= 3
    /\ current_direction = DIR_LEFT
    /\ \A i \in 0..(snake.length - 1) : snake.y[i] = max_y \div 2
    /\ (pc = "collide") => (HeadOnBody(snake) = (snake.length >= max_x - 1))
    /\ game_over => snake.length = max_x - 1
    /\ snake.length <= max_x - 1

\* On the 11 x 3 screen the snake has grown to 10 segments, the first growth
\* later than 5 s, and the game has ended by a collision.
C20_Witness ==
    /\ pc = "done"
    /\ game_over /\ message
    /\ max_x = 11 /\ max_y = 3
    /\ snake.length = 10
    /\ grown_at[1] = 6

====
